---- MODULE Spec2Model ----
(***************************************************************************)
(* Kinect -> NDI bridge (kinect_ndi_cross_platform.cpp).                   *)
(*                                                                         *)
(* Two threads: the main thread (argument parsing, NDI start-up, the       *)
(* reconnect supervisor and the publish loop) and the driver thread that   *)
(* invokes VideoCallback / DepthCallback.  The main thread's position is   *)
(* pc, named after the source line it is about to execute ("L224" is the   *)
(* call of freenect_process_events); the driver thread's position is cbpc  *)
(* ("V.." inside VideoCallback, "D.." inside DepthCallback).               *)
(***************************************************************************)
EXTENDS Integers, Sequences, FiniteSets, TLC

\* ------------------------------------------------------------------ bounds
\* Frame dimensions, scaled down (the program uses 640 x 480).
WIDTH == 2
HEIGHT == 1
\* Longest command line explored (arguments after argv[0]).
MaxArgs == 3
\* Frames the driver delivers, video and depth together, in one run.
MaxPuts == 2

\* ------------------------------------------------------- program constants
NULL == 0
\* Divisor and multiplier of the 11-bit depth mapping.
DepthMax == 2047
GrayMax == 255
\* Width of uint8_t.
ByteMod == 256

\* argv holds the arguments the loop of line 82 has not read yet: argv[i]
\* up to argv[argc-1].
VARIABLES
  argv,
  enable_rgb, enable_ir, enable_depth, videoChannels,
  pc, exitCode, lastLog,
  ndiInitialized, ndiSenderVideo, ndiSenderDepth,
  f_ctx, f_dev, ctxOpen, devOpen,
  videoCbSet, depthCbSet, videoStarted, depthStarted,
  kinect_active,
  videoMutex, newVideoFrame, videoBuffer,
  depthMutex, newDepthFrame, depthBuffer,
  localVideoBuffer, localDepthBuffer, rgbaFrame,
  cbpc, cbFrame, cbIdx,
  videoPuts, depthPuts, sentVideo, sentDepth,
  delays, everInit,
  videoMode, depthMode, videoBase, depthBase

cfgVars == <<enable_rgb, enable_ir, enable_depth, videoChannels>>
cliVars == <<argv>>
ndiVars == <<ndiInitialized, ndiSenderVideo, ndiSenderDepth>>
devVars == <<f_ctx, f_dev, ctxOpen, devOpen, videoCbSet, depthCbSet,
             videoStarted, depthStarted>>
videoSlot == <<videoMutex, newVideoFrame, videoBuffer>>
depthSlot == <<depthMutex, newDepthFrame, depthBuffer>>
mainLocals == <<localVideoBuffer, localDepthBuffer, rgbaFrame, kinect_active>>
cbVars == <<cbpc, cbFrame, cbIdx>>
sinkVars == <<sentVideo, sentDepth>>
putVars == <<videoPuts, depthPuts>>
histVars == <<delays, everInit>>
\* The frame modes selected on the open device.
modeVars == <<videoMode, depthMode>>
\* The number of frames each callback had been handed when the current
\* connection attempt began.
sessVars == <<videoBase, depthBase>>

vars == <<cliVars, cfgVars, pc, exitCode, lastLog, ndiVars, devVars,
          videoSlot, depthSlot, mainLocals, cbVars, sinkVars, putVars,
          histVars, modeVars, sessVars>>

\* ----------------------------------------------------------------- helpers
Args == {"--help", "-h", "--ir", "--rgb", "--depth", "--bogus"}
ArgLists == UNION {[1..n -> Args] : n \in 0..MaxArgs}

Pixels == WIDTH * HEIGHT

\* Frame number n as the driver hands it to VideoCallback: every byte is n.
VideoFrame(n) == [k \in 1..(Pixels * videoChannels) |-> n]
\* Frame number n as the driver hands it to DepthCallback: 11-bit samples.
DepthFrame(n) == [k \in 1..Pixels |-> n * ByteMod]

\* std::vector::resize(n): keeps the prefix, value-initialises the rest.
Resize(buf, n) == [k \in 1..n |-> IF k <= Len(buf) THEN buf[k] ELSE 0]

\* operator[] of a vector; reading past the end yields an arbitrary byte g.
At(buf, k, g) == IF k \in 1..Len(buf) THEN buf[k] ELSE g
Garbage == {0, GrayMax}

\* Lines 243-249: IR sample replicated into B, G, R; X = 255.
ConvertIR(buf, g) ==
  [p \in 1..Pixels |-> LET gray == At(buf, p, g) IN <<gray, gray, gray, GrayMax>>]
\* ConvertRGB that keeps the source order (R, G, B, X).
ConvertRGB_NoSwap(buf, g) ==
  [p \in 1..Pixels |->
     LET r == At(buf, 3 * (p - 1) + 1, g)
         gn == At(buf, 3 * (p - 1) + 2, g)
         b == At(buf, 3 * (p - 1) + 3, g)
     IN <<r, gn, b, GrayMax>>]
\* Lines 252-260: RGB to BGRX.
ConvertRGB(buf, g) ==
  [p \in 1..Pixels |->
     LET r == At(buf, 3 * (p - 1) + 1, g)
         gn == At(buf, 3 * (p - 1) + 2, g)
         b == At(buf, 3 * (p - 1) + 3, g)
     IN <<b, gn, r, GrayMax>>]
\* DepthGray as a shift by three bits (11 bits to 8 bits).
DepthGray_Shift(depthVal) == (depthVal \div 8) % ByteMod
\* Line 287: static_cast<uint8_t>((depthVal * 255) / 2047).
DepthGray(depthVal) == ((depthVal * GrayMax) \div DepthMax) % ByteMod
\* Lines 285-292.
ConvertDepth(buf, g) ==
  [p \in 1..Pixels |-> LET gray == DepthGray(At(buf, p, g))
                       IN <<gray, gray, gray, GrayMax>>]
\* std::vector<uint8_t> rgbaFrame(WIDTH * HEIGHT * 4), lines 234 and 277.
BlankImage == [p \in 1..Pixels |-> <<0, 0, 0, 0>>]

videoEnabled == enable_ir \/ enable_rgb

\* ------------------------------------------------------------------- Init
Init ==
  /\ argv \in ArgLists
  /\ enable_rgb = FALSE /\ enable_ir = FALSE /\ enable_depth = FALSE
  /\ videoChannels = 0
  /\ pc = "L78" /\ exitCode = -1 /\ lastLog = "none"
  /\ ndiInitialized = FALSE /\ ndiSenderVideo = NULL /\ ndiSenderDepth = NULL
  /\ f_ctx = NULL /\ f_dev = NULL /\ ctxOpen = FALSE /\ devOpen = FALSE
  /\ videoCbSet = FALSE /\ depthCbSet = FALSE
  /\ videoStarted = FALSE /\ depthStarted = FALSE
  /\ kinect_active = FALSE
  /\ videoMutex = "free" /\ newVideoFrame = FALSE /\ videoBuffer = <<>>
  /\ depthMutex = "free" /\ newDepthFrame = FALSE /\ depthBuffer = <<>>
  /\ localVideoBuffer = <<>> /\ localDepthBuffer = <<>> /\ rgbaFrame = <<>>
  /\ cbpc = "idle" /\ cbFrame = <<>> /\ cbIdx = 0
  /\ videoPuts = 0 /\ depthPuts = 0
  /\ sentVideo = <<>> /\ sentDepth = <<>>
  /\ delays = 0 /\ everInit = FALSE
  /\ videoMode = "none" /\ depthMode = "none"
  /\ videoBase = 0 /\ depthBase = 0

\* ------------------------------------------------- start-up (main thread)
startupFrame == <<devVars, videoSlot, depthSlot, mainLocals, cbVars,
                  sinkVars, putVars, histVars, modeVars, sessVars>>

\* Lines 78-81: no arguments, print usage, return 0.
CheckArgc ==
  /\ pc = "L78"
  /\ LET argc == Len(argv) + 1 IN
     IF argc < 2
       THEN /\ pc' = "exit" /\ exitCode' = 0 /\ lastLog' = "usage"
       ELSE /\ pc' = "L82" /\ UNCHANGED <<exitCode, lastLog>>
  /\ UNCHANGED <<cliVars, cfgVars, ndiVars, startupFrame>>

\* Lines 82-98: one iteration of the argument loop (i < argc: an argument is
\* left; i++ drops it from the arguments still to be read).
ParseArg ==
  /\ pc = "L82"
  /\ argv # <<>>
  /\ LET arg == Head(argv) IN
       IF arg \in {"--help", "-h"}
         THEN /\ pc' = "exit" /\ exitCode' = 0 /\ lastLog' = "usage"
              /\ UNCHANGED <<argv, cfgVars>>
       ELSE IF arg = "--ir"
         THEN /\ enable_ir' = TRUE /\ argv' = Tail(argv)
              /\ UNCHANGED <<enable_rgb, enable_depth, videoChannels,
                             pc, exitCode, lastLog>>
       ELSE IF arg = "--rgb"
         THEN /\ enable_rgb' = TRUE /\ argv' = Tail(argv)
              /\ UNCHANGED <<enable_ir, enable_depth, videoChannels,
                             pc, exitCode, lastLog>>
       ELSE IF arg = "--depth"
         THEN /\ enable_depth' = TRUE /\ argv' = Tail(argv)
              /\ UNCHANGED <<enable_ir, enable_rgb, videoChannels,
                             pc, exitCode, lastLog>>
       ELSE /\ pc' = "exit" /\ exitCode' = 1 /\ lastLog' = "unknown_argument"
            /\ UNCHANGED <<argv, cfgVars>>
  /\ UNCHANGED <<ndiVars, startupFrame>>

\* Validate without the test of line 99.
Validate_NoBothCheck ==
  /\ pc = "L82"
  /\ argv = <<>>
  /\ IF ~enable_ir /\ ~enable_rgb /\ ~enable_depth
       THEN /\ pc' = "exit" /\ exitCode' = 1 /\ lastLog' = "no_mode"
            /\ UNCHANGED videoChannels
     ELSE /\ videoChannels' = IF enable_ir THEN 1
                              ELSE IF enable_rgb THEN 3 ELSE videoChannels
          /\ pc' = "L115"
          /\ UNCHANGED <<exitCode, lastLog>>
  /\ UNCHANGED <<cliVars, enable_ir, enable_rgb, enable_depth, ndiVars,
                 startupFrame>>

\* Validate with the else-branch of lines 110-111 left out: the channel
\* count of the colour mode is never set.
Validate_NoRgbChannels ==
  /\ pc = "L82"
  /\ argv = <<>>
  /\ IF enable_ir /\ enable_rgb
       THEN /\ pc' = "exit" /\ exitCode' = 1 /\ lastLog' = "both_ir_rgb"
            /\ UNCHANGED videoChannels
     ELSE IF ~enable_ir /\ ~enable_rgb /\ ~enable_depth
       THEN /\ pc' = "exit" /\ exitCode' = 1 /\ lastLog' = "no_mode"
            /\ UNCHANGED videoChannels
     ELSE /\ videoChannels' = IF enable_ir THEN 1 ELSE videoChannels
          /\ pc' = "L115"
          /\ UNCHANGED <<exitCode, lastLog>>
  /\ UNCHANGED <<cliVars, enable_ir, enable_rgb, enable_depth, ndiVars,
                 startupFrame>>

\* Lines 99-112: validation after the loop, then videoChannels.
Validate ==
  /\ pc = "L82"
  /\ argv = <<>>
  /\ IF enable_ir /\ enable_rgb
       THEN /\ pc' = "exit" /\ exitCode' = 1 /\ lastLog' = "both_ir_rgb"
            /\ UNCHANGED videoChannels
     ELSE IF ~enable_ir /\ ~enable_rgb /\ ~enable_depth
       THEN /\ pc' = "exit" /\ exitCode' = 1 /\ lastLog' = "no_mode"
            /\ UNCHANGED videoChannels
     ELSE /\ videoChannels' = IF enable_ir THEN 1
                              ELSE IF enable_rgb THEN 3 ELSE videoChannels
          /\ pc' = "L115"
          /\ UNCHANGED <<exitCode, lastLog>>
  /\ UNCHANGED <<cliVars, enable_ir, enable_rgb, enable_depth, ndiVars,
                 startupFrame>>

\* NdiInitialize that logs the failure and carries on.
NdiInitialize_IgnoreFailure ==
  /\ pc = "L115"
  /\ \E ok \in BOOLEAN :
       IF ok
         THEN /\ ndiInitialized' = TRUE /\ pc' = "L121"
              /\ UNCHANGED <<exitCode, lastLog>>
         ELSE /\ pc' = "L121" /\ lastLog' = "ndi_init_failed"
              /\ UNCHANGED <<exitCode, ndiInitialized>>
  /\ UNCHANGED <<cliVars, cfgVars, ndiSenderVideo, ndiSenderDepth,
                 startupFrame>>

\* Lines 115-118: NDIlib_initialize().
NdiInitialize ==
  /\ pc = "L115"
  /\ \E ok \in BOOLEAN :
       IF ok
         THEN /\ ndiInitialized' = TRUE /\ pc' = "L121"
              /\ UNCHANGED <<exitCode, lastLog>>
         ELSE /\ pc' = "exit" /\ exitCode' = 1 /\ lastLog' = "ndi_init_failed"
              /\ UNCHANGED ndiInitialized
  /\ UNCHANGED <<cliVars, cfgVars, ndiSenderVideo, ndiSenderDepth,
                 startupFrame>>

\* Lines 121-132: video sender; a null result destroys the library and exits.
CreateVideoSender ==
  /\ pc = "L121"
  /\ IF videoEnabled
       THEN \E h \in {NULL, 1} :
              IF h # NULL
                THEN /\ ndiSenderVideo' = h /\ pc' = "L133"
                     /\ UNCHANGED <<exitCode, lastLog, ndiInitialized>>
                ELSE /\ ndiInitialized' = FALSE
                     /\ pc' = "exit" /\ exitCode' = 1
                     /\ lastLog' = "video_sender_failed"
                     /\ UNCHANGED ndiSenderVideo
       ELSE /\ pc' = "L133"
            /\ UNCHANGED <<exitCode, lastLog, ndiInitialized, ndiSenderVideo>>
  /\ UNCHANGED <<cliVars, cfgVars, ndiSenderDepth, startupFrame>>

\* CreateDepthSender that does not test the result of NDIlib_send_create.
CreateDepthSender_Unchecked ==
  /\ pc = "L133"
  /\ IF enable_depth
       THEN \E h \in {NULL, 2} :
              /\ ndiSenderDepth' = h /\ pc' = "L152"
              /\ lastLog' = "starting"
              /\ UNCHANGED <<exitCode, ndiInitialized, ndiSenderVideo>>
       ELSE /\ pc' = "L152" /\ lastLog' = "starting"
            /\ UNCHANGED <<exitCode, ndiInitialized, ndiSenderVideo,
                           ndiSenderDepth>>
  /\ UNCHANGED <<cliVars, cfgVars, startupFrame>>

\* Lines 133-148: depth sender; a null result destroys the video sender and
\* the library and exits; otherwise the start banner is printed.
CreateDepthSender ==
  /\ pc = "L133"
  /\ IF enable_depth
       THEN \E h \in {NULL, 2} :
              IF h # NULL
                THEN /\ ndiSenderDepth' = h /\ pc' = "L152"
                     /\ lastLog' = "starting"
                     /\ UNCHANGED <<exitCode, ndiInitialized, ndiSenderVideo>>
                ELSE /\ ndiSenderVideo' = NULL
                     /\ ndiInitialized' = FALSE
                     /\ pc' = "exit" /\ exitCode' = 1
                     /\ lastLog' = "depth_sender_failed"
                     /\ UNCHANGED ndiSenderDepth
       ELSE /\ pc' = "L152" /\ lastLog' = "starting"
            /\ UNCHANGED <<exitCode, ndiInitialized, ndiSenderVideo,
                           ndiSenderDepth>>
  /\ UNCHANGED <<cliVars, cfgVars, startupFrame>>

\* --------------------------------------- connection supervisor (main thread)
FailLogs == {"init_failed", "open_failed", "video_mode_failed",
             "video_start_failed", "depth_mode_failed", "depth_start_failed",
             "events_failed", "connection_lost"}

superRest == <<cliVars, cfgVars, exitCode, ndiVars, videoSlot, depthSlot,
               mainLocals, cbVars, sinkVars, putVars>>
superFrame == <<superRest, modeVars, sessVars>>

\* The frames handed to a callback so far: the completed Puts and the one in
\* progress.
VideoHanded ==
  videoPuts + (IF cbpc \in {"V43", "V44", "V47", "V48", "V49"} THEN 1 ELSE 0)
DepthHanded ==
  depthPuts + (IF cbpc \in {"D54", "D55", "D58", "D59", "D60"} THEN 1 ELSE 0)

\* FreenectInit that gives up (return 1) when freenect_init() fails.
FreenectInit_Fatal ==
  /\ pc = "L152"
  /\ everInit' = TRUE
  /\ videoBase' = VideoHanded /\ depthBase' = DepthHanded
  /\ f_dev' = NULL
  /\ \E ok \in BOOLEAN :
       IF ok
         THEN /\ f_ctx' = 1 /\ ctxOpen' = TRUE /\ pc' = "L162"
              /\ UNCHANGED <<lastLog, delays, exitCode>>
         ELSE /\ f_ctx' = NULL /\ pc' = "exit" /\ exitCode' = 1
              /\ lastLog' = "init_failed" /\ delays' = 0
              /\ UNCHANGED ctxOpen
  /\ UNCHANGED <<devOpen, videoCbSet, depthCbSet, videoStarted, depthStarted,
                 cliVars, cfgVars, ndiVars, videoSlot, depthSlot,
                 mainLocals, cbVars, sinkVars, putVars, modeVars>>

\* Lines 152-160: fresh f_ctx / f_dev, then freenect_init().
FreenectInit ==
  /\ pc = "L152"
  /\ everInit' = TRUE
  /\ videoBase' = VideoHanded /\ depthBase' = DepthHanded
  /\ f_dev' = NULL
  /\ \E ok \in BOOLEAN :
       IF ok
         THEN /\ f_ctx' = 1 /\ ctxOpen' = TRUE /\ pc' = "L162"
              /\ UNCHANGED <<lastLog, delays>>
         ELSE /\ f_ctx' = NULL /\ pc' = "L158"
              /\ lastLog' = "init_failed" /\ delays' = 0
              /\ UNCHANGED ctxOpen
  /\ UNCHANGED <<devOpen, videoCbSet, depthCbSet, videoStarted, depthStarted,
                 superRest, modeVars>>

\* Lines 162-163: freenect_open_device().
OpenDevice ==
  /\ pc = "L162"
  /\ \E ok \in BOOLEAN :
       IF ok
         THEN /\ f_dev' = 1 /\ devOpen' = TRUE /\ pc' = "L170"
              /\ UNCHANGED <<lastLog, delays>>
         ELSE /\ pc' = "L164" /\ lastLog' = "open_failed" /\ delays' = 0
              /\ UNCHANGED <<f_dev, devOpen>>
  /\ UNCHANGED <<f_ctx, ctxOpen, videoCbSet, depthCbSet, videoStarted,
                 depthStarted, everInit, superFrame>>

\* Lines 170-179: install VideoCallback, select the mode, set it.
SetVideoMode ==
  /\ pc = "L170"
  /\ IF videoEnabled
       THEN /\ videoCbSet' = TRUE
            /\ \E ok \in BOOLEAN :
                 IF ok
                   THEN /\ pc' = "L186"
                        /\ videoMode' = IF enable_ir THEN "IR_8BIT" ELSE "RGB"
                        /\ UNCHANGED <<lastLog, delays>>
                   ELSE /\ pc' = "L180" /\ lastLog' = "video_mode_failed"
                        /\ delays' = 0 /\ UNCHANGED videoMode
       ELSE /\ pc' = "L195"
            /\ UNCHANGED <<videoCbSet, videoMode, lastLog, delays>>
  /\ UNCHANGED <<f_ctx, f_dev, ctxOpen, devOpen, depthCbSet, videoStarted,
                 depthStarted, everInit, superRest, depthMode, sessVars>>

\* StartVideo that logs a failed start and goes on to the depth stream.
StartVideo_IgnoreFailure ==
  /\ pc = "L186"
  /\ \E ok \in BOOLEAN :
       IF ok
         THEN /\ videoStarted' = TRUE /\ pc' = "L195"
              /\ UNCHANGED <<lastLog, delays>>
         ELSE /\ pc' = "L195" /\ lastLog' = "video_start_failed"
              /\ delays' = 0 /\ UNCHANGED videoStarted
  /\ UNCHANGED <<f_ctx, f_dev, ctxOpen, devOpen, videoCbSet, depthCbSet,
                 depthStarted, everInit, superFrame>>

\* Lines 186-187: freenect_start_video().
StartVideo ==
  /\ pc = "L186"
  /\ \E ok \in BOOLEAN :
       IF ok
         THEN /\ videoStarted' = TRUE /\ pc' = "L195"
              /\ UNCHANGED <<lastLog, delays>>
         ELSE /\ pc' = "L188" /\ lastLog' = "video_start_failed"
              /\ delays' = 0 /\ UNCHANGED videoStarted
  /\ UNCHANGED <<f_ctx, f_dev, ctxOpen, devOpen, videoCbSet, depthCbSet,
                 depthStarted, everInit, superFrame>>

\* Lines 195-199: install DepthCallback, select the mode, set it.
SetDepthMode ==
  /\ pc = "L195"
  /\ IF enable_depth
       THEN /\ depthCbSet' = TRUE
            /\ \E ok \in BOOLEAN :
                 IF ok
                   THEN /\ pc' = "L208" /\ depthMode' = "DEPTH_11BIT"
                        /\ UNCHANGED <<lastLog, delays>>
                   ELSE /\ pc' = "L200" /\ lastLog' = "depth_mode_failed"
                        /\ delays' = 0 /\ UNCHANGED depthMode
       ELSE /\ pc' = "L219"
            /\ UNCHANGED <<depthCbSet, depthMode, lastLog, delays>>
  /\ UNCHANGED <<f_ctx, f_dev, ctxOpen, devOpen, videoCbSet, videoStarted,
                 depthStarted, everInit, superRest, videoMode, sessVars>>

\* Lines 208-209: freenect_start_depth().
StartDepth ==
  /\ pc = "L208"
  /\ \E ok \in BOOLEAN :
       IF ok
         THEN /\ depthStarted' = TRUE /\ pc' = "L219"
              /\ UNCHANGED <<lastLog, delays>>
         ELSE /\ pc' = "L210" /\ lastLog' = "depth_start_failed"
              /\ delays' = 0 /\ UNCHANGED depthStarted
  /\ UNCHANGED <<f_ctx, f_dev, ctxOpen, devOpen, videoCbSet, depthCbSet,
                 videoStarted, everInit, superFrame>>

\* StopVideo with the call of freenect_stop_video left out.
StopVideo_Noop(at, next) ==
  /\ pc = at
  /\ pc' = next
  /\ UNCHANGED <<devVars, lastLog, histVars, superFrame>>

\* if (enable_ir || enable_rgb) freenect_stop_video(f_dev), at lines
\* 200-201, 210-211 and 309-310.  videoStarted records that the program has
\* started the stream and not stopped it.
StopVideo(at, next) ==
  /\ pc = at
  /\ pc' = next
  /\ videoStarted' = IF videoEnabled THEN FALSE ELSE videoStarted
  /\ UNCHANGED <<f_ctx, f_dev, ctxOpen, devOpen, videoCbSet, depthCbSet,
                 depthStarted, lastLog, histVars, superFrame>>

\* StopDepth with the call of freenect_stop_depth left out.
StopDepth_Noop ==
  /\ pc = "L311"
  /\ pc' = "L313"
  /\ UNCHANGED <<devVars, lastLog, histVars, superFrame>>

\* Lines 311-312: if (enable_depth) freenect_stop_depth(f_dev).
StopDepth ==
  /\ pc = "L311"
  /\ pc' = "L313"
  /\ depthStarted' = IF enable_depth THEN FALSE ELSE depthStarted
  /\ UNCHANGED <<f_ctx, f_dev, ctxOpen, devOpen, videoCbSet, depthCbSet,
                 videoStarted, lastLog, histVars, superFrame>>

\* freenect_close_device(f_dev), at lines 180, 188, 202, 212 and 313: the
\* device object, the callbacks registered on it and its modes are gone.
\* The driver frees the device only when none of its callbacks is running
\* (it calls them from its event handling), so the call returns with the
\* driver thread idle.
CloseDevice(at, next) ==
  /\ pc = at
  /\ cbpc = "idle"
  /\ pc' = next
  /\ devOpen' = FALSE /\ videoCbSet' = FALSE /\ depthCbSet' = FALSE
  /\ videoMode' = "none" /\ depthMode' = "none"
  /\ UNCHANGED <<f_ctx, f_dev, ctxOpen, videoStarted, depthStarted, lastLog,
                 histVars, superRest, sessVars>>

\* Shutdown followed by continue, without the sleep.
Shutdown_Continue(at, next) ==
  /\ pc = at
  /\ pc' = "L152"
  /\ ctxOpen' = FALSE
  /\ UNCHANGED <<f_ctx, f_dev, devOpen, videoCbSet, depthCbSet, videoStarted,
                 depthStarted, lastLog, histVars, superFrame>>

\* freenect_shutdown(f_ctx), at lines 164, 181, 189, 203 and 213.
Shutdown(at, next) ==
  /\ pc = at
  /\ pc' = next
  /\ ctxOpen' = FALSE
  /\ UNCHANGED <<f_ctx, f_dev, devOpen, videoCbSet, depthCbSet, videoStarted,
                 depthStarted, lastLog, histVars, superFrame>>

\* ShutdownLost that also runs the sender cleanup of lines 320-323.
ShutdownLost_DestroysSenders ==
  /\ pc = "L314"
  /\ pc' = "L316"
  /\ ctxOpen' = FALSE
  /\ lastLog' = "connection_lost"
  /\ ndiSenderVideo' = NULL /\ ndiSenderDepth' = NULL
  /\ UNCHANGED <<f_ctx, f_dev, devOpen, videoCbSet, depthCbSet, videoStarted,
                 depthStarted, histVars, cliVars, cfgVars, exitCode,
                 ndiInitialized, videoSlot, depthSlot, mainLocals, cbVars,
                 sinkVars, putVars, modeVars, sessVars>>

\* Lines 314-315: freenect_shutdown(f_ctx) and the "connection lost" log.
ShutdownLost ==
  /\ pc = "L314"
  /\ pc' = "L316"
  /\ ctxOpen' = FALSE
  /\ lastLog' = "connection_lost"
  /\ UNCHANGED <<f_ctx, f_dev, devOpen, videoCbSet, depthCbSet, videoStarted,
                 depthStarted, histVars, superFrame>>

\* std::this_thread::sleep_for(seconds(5)) followed by continue / the end of
\* the outer loop body, at lines 158, 165, 182, 190, 204, 214 and 316.
SleepPcs == {"L158", "L165", "L182", "L190", "L204", "L214", "L316"}
Sleep5(at) ==
  /\ pc = at
  /\ pc' = "L152"
  /\ delays' = delays + 1
  /\ UNCHANGED <<devVars, lastLog, everInit, superFrame>>

\* Lines 219-223: the "connected" log and kinect_active = true.
Connected ==
  /\ pc = "L219"
  /\ pc' = "L224"
  /\ lastLog' = "connected"
  /\ kinect_active' = TRUE
  /\ UNCHANGED <<cliVars, cfgVars, exitCode, ndiVars, devVars, videoSlot,
                 depthSlot, localVideoBuffer, localDepthBuffer, rgbaFrame,
                 cbVars, sinkVars, putVars, histVars, modeVars, sessVars>>

\* ------------------------------------------------ publish loop (main thread)
loopFrame == <<cliVars, cfgVars, exitCode, ndiVars, devVars, cbVars, putVars,
               everInit, modeVars, sessVars>>

\* Lines 224-229: freenect_process_events(); a negative result leaves the loop.
ProcessEvents ==
  /\ pc = "L224"
  /\ kinect_active
  /\ \E ret \in {-1, 0} :
       IF ret < 0
         THEN /\ lastLog' = "events_failed" /\ delays' = 0
              /\ kinect_active' = FALSE /\ pc' = "L309"
         ELSE /\ pc' = "L232" /\ UNCHANGED <<lastLog, delays, kinect_active>>
  /\ UNCHANGED <<loopFrame, videoSlot, depthSlot, localVideoBuffer,
                 localDepthBuffer, rgbaFrame, sinkVars>>

\* Lines 232-235: the unlocked flag test and the two local vectors.
CheckVideo ==
  /\ pc = "L232"
  /\ IF videoEnabled /\ newVideoFrame
       THEN /\ rgbaFrame' = BlankImage /\ localVideoBuffer' = <<>>
            /\ pc' = "L237"
       ELSE /\ pc' = "L276" /\ UNCHANGED <<rgbaFrame, localVideoBuffer>>
  /\ UNCHANGED <<loopFrame, videoSlot, depthSlot, localDepthBuffer,
                 kinect_active, sinkVars, lastLog, delays>>

\* LockVideo that does not wait for the mutex.
LockVideo_NoWait ==
  /\ pc = "L237"
  /\ videoMutex' = "main"
  /\ pc' = "L238"
  /\ UNCHANGED <<loopFrame, newVideoFrame, videoBuffer, depthSlot,
                 mainLocals, sinkVars, lastLog, delays>>

\* Line 237: std::lock_guard on videoMutex.
LockVideo ==
  /\ pc = "L237"
  /\ videoMutex = "free"
  /\ videoMutex' = "main"
  /\ pc' = "L238"
  /\ UNCHANGED <<loopFrame, newVideoFrame, videoBuffer, depthSlot,
                 mainLocals, sinkVars, lastLog, delays>>

\* Line 238: localVideoBuffer = videoBuffer.
CopyVideo ==
  /\ pc = "L238"
  /\ localVideoBuffer' = videoBuffer
  /\ pc' = "L239"
  /\ UNCHANGED <<loopFrame, videoSlot, depthSlot, localDepthBuffer, rgbaFrame,
                 kinect_active, sinkVars, lastLog, delays>>

\* ClearVideoFlag that leaves the flag set.
ClearVideoFlag_NoClear ==
  /\ pc = "L239"
  /\ pc' = "L240"
  /\ UNCHANGED <<loopFrame, videoSlot, depthSlot, mainLocals,
                 sinkVars, lastLog, delays>>

\* Line 239: newVideoFrame = false.
ClearVideoFlag ==
  /\ pc = "L239"
  /\ newVideoFrame' = FALSE
  /\ pc' = "L240"
  /\ UNCHANGED <<loopFrame, videoMutex, videoBuffer, depthSlot, mainLocals,
                 sinkVars, lastLog, delays>>

\* UnlockVideo with the lock_guard declared in the enclosing block: the
\* mutex is still held after line 240.
UnlockVideo_Late ==
  /\ pc = "L240"
  /\ pc' = "L241"
  /\ UNCHANGED <<loopFrame, videoSlot, depthSlot,
                 mainLocals, sinkVars, lastLog, delays>>

\* Line 240: end of the lock_guard's scope.
UnlockVideo ==
  /\ pc = "L240"
  /\ videoMutex' = "free"
  /\ pc' = "L241"
  /\ UNCHANGED <<loopFrame, newVideoFrame, videoBuffer, depthSlot,
                 mainLocals, sinkVars, lastLog, delays>>

\* Lines 241-261: IR or RGB conversion into rgbaFrame.
ConvertVideo ==
  /\ pc = "L241"
  /\ \E g \in Garbage :
       rgbaFrame' = IF enable_ir THEN ConvertIR(localVideoBuffer, g)
                    ELSE IF enable_rgb THEN ConvertRGB(localVideoBuffer, g)
                    ELSE rgbaFrame
  /\ pc' = "L272"
  /\ UNCHANGED <<loopFrame, videoSlot, depthSlot, localVideoBuffer,
                 localDepthBuffer, kinect_active, sinkVars, lastLog, delays>>

\* Lines 262-273: the frame descriptor, the guarded send, end of the block.
SendVideo ==
  /\ pc = "L272"
  /\ sentVideo' = IF ndiSenderVideo # NULL
                    THEN Append(sentVideo, [src |-> localVideoBuffer,
                                            img |-> rgbaFrame])
                    ELSE sentVideo
  /\ rgbaFrame' = <<>> /\ localVideoBuffer' = <<>>
  /\ pc' = "L276"
  /\ UNCHANGED <<loopFrame, videoSlot, depthSlot, localDepthBuffer,
                 kinect_active, sentDepth, lastLog, delays>>

\* Lines 276-278.
CheckDepth ==
  /\ pc = "L276"
  /\ IF enable_depth /\ newDepthFrame
       THEN /\ rgbaFrame' = BlankImage /\ localDepthBuffer' = <<>>
            /\ pc' = "L280"
       ELSE /\ pc' = "L305" /\ UNCHANGED <<rgbaFrame, localDepthBuffer>>
  /\ UNCHANGED <<loopFrame, videoSlot, depthSlot, localVideoBuffer,
                 kinect_active, sinkVars, lastLog, delays>>

\* Line 280: std::lock_guard on depthMutex.
LockDepth ==
  /\ pc = "L280"
  /\ depthMutex = "free"
  /\ depthMutex' = "main"
  /\ pc' = "L281"
  /\ UNCHANGED <<loopFrame, videoSlot, newDepthFrame, depthBuffer,
                 mainLocals, sinkVars, lastLog, delays>>

\* Line 281: localDepthBuffer = depthBuffer.
CopyDepth ==
  /\ pc = "L281"
  /\ localDepthBuffer' = depthBuffer
  /\ pc' = "L282"
  /\ UNCHANGED <<loopFrame, videoSlot, depthSlot, localVideoBuffer, rgbaFrame,
                 kinect_active, sinkVars, lastLog, delays>>

\* Line 282: newDepthFrame = false.
ClearDepthFlag ==
  /\ pc = "L282"
  /\ newDepthFrame' = FALSE
  /\ pc' = "L283"
  /\ UNCHANGED <<loopFrame, videoSlot, depthMutex, depthBuffer, mainLocals,
                 sinkVars, lastLog, delays>>

\* Line 283: end of the lock_guard's scope.
UnlockDepth ==
  /\ pc = "L283"
  /\ depthMutex' = "free"
  /\ pc' = "L285"
  /\ UNCHANGED <<loopFrame, videoSlot, newDepthFrame, depthBuffer,
                 mainLocals, sinkVars, lastLog, delays>>

\* Lines 285-292: depth conversion into rgbaFrame.
ConvertDepthFrame ==
  /\ pc = "L285"
  /\ \E g \in Garbage : rgbaFrame' = ConvertDepth(localDepthBuffer, g)
  /\ pc' = "L303"
  /\ UNCHANGED <<loopFrame, videoSlot, depthSlot, localVideoBuffer,
                 localDepthBuffer, kinect_active, sinkVars, lastLog, delays>>

\* Lines 293-304: the frame descriptor, the guarded send, end of the block.
SendDepth ==
  /\ pc = "L303"
  /\ sentDepth' = IF ndiSenderDepth # NULL
                    THEN Append(sentDepth, [src |-> localDepthBuffer,
                                            img |-> rgbaFrame])
                    ELSE sentDepth
  /\ rgbaFrame' = <<>> /\ localDepthBuffer' = <<>>
  /\ pc' = "L305"
  /\ UNCHANGED <<loopFrame, videoSlot, depthSlot, localVideoBuffer,
                 kinect_active, sentVideo, lastLog, delays>>

\* Line 305: the 10 ms polling sleep, then the loop test.
Sleep10 ==
  /\ pc = "L305"
  /\ pc' = "L224"
  /\ UNCHANGED <<loopFrame, videoSlot, depthSlot, mainLocals, sinkVars,
                 lastLog, delays>>

\* ---------------------------------------------------------- driver thread
cbFrameVars == <<cliVars, cfgVars, pc, exitCode, lastLog, ndiVars, devVars,
                 mainLocals, sinkVars, histVars, modeVars, sessVars>>

\* The driver has a video frame ready and calls VideoCallback (line 41).
VideoDeliver ==
  /\ cbpc = "idle"
  /\ ctxOpen /\ devOpen /\ videoCbSet /\ videoStarted
  /\ videoPuts + depthPuts < MaxPuts
  /\ cbFrame' = VideoFrame(videoPuts + 1)
  /\ cbpc' = "V43"
  /\ UNCHANGED <<cbFrameVars, videoSlot, depthSlot, cbIdx, putVars>>

\* VideoCallbackLock that does not wait for the mutex.
VideoCallbackLock_NoWait ==
  /\ cbpc = "V43"
  /\ videoMutex' = "cb"
  /\ cbpc' = "V44"
  /\ UNCHANGED <<cbFrameVars, newVideoFrame, videoBuffer, depthSlot, cbFrame,
                 cbIdx, putVars>>

\* Line 43: std::lock_guard on videoMutex.
VideoCallbackLock ==
  /\ cbpc = "V43"
  /\ videoMutex = "free"
  /\ videoMutex' = "cb"
  /\ cbpc' = "V44"
  /\ UNCHANGED <<cbFrameVars, newVideoFrame, videoBuffer, depthSlot, cbFrame,
                 cbIdx, putVars>>

\* VideoCallbackResize without the resize of lines 45-46.
VideoCallbackResize_NoResize ==
  /\ cbpc = "V44"
  /\ cbIdx' = 0
  /\ cbpc' = "V47"
  /\ UNCHANGED <<cbFrameVars, videoSlot, depthSlot, cbFrame, putVars>>

\* VideoCallbackResize with the memcpy inside the if: a frame of the right
\* size is not copied.
VideoCallbackResize_SkipCopy ==
  /\ cbpc = "V44"
  /\ LET frameSize == WIDTH * HEIGHT * videoChannels IN
       /\ videoBuffer' = IF Len(videoBuffer) # frameSize
                           THEN Resize(videoBuffer, frameSize)
                           ELSE videoBuffer
       /\ cbpc' = IF Len(videoBuffer) # frameSize THEN "V47" ELSE "V48"
  /\ cbIdx' = 0
  /\ UNCHANGED <<cbFrameVars, videoMutex, newVideoFrame, depthSlot, cbFrame,
                 putVars>>

\* Lines 44-46: frameSize and the resize on a size mismatch.
VideoCallbackResize ==
  /\ cbpc = "V44"
  /\ LET frameSize == WIDTH * HEIGHT * videoChannels IN
       videoBuffer' = IF Len(videoBuffer) # frameSize
                        THEN Resize(videoBuffer, frameSize)
                        ELSE videoBuffer
  /\ cbIdx' = 0
  /\ cbpc' = "V47"
  /\ UNCHANGED <<cbFrameVars, videoMutex, newVideoFrame, depthSlot, cbFrame,
                 putVars>>

\* Line 47: std::memcpy, one element per step.
VideoCallbackMemcpy ==
  /\ cbpc = "V47"
  /\ LET frameSize == WIDTH * HEIGHT * videoChannels IN
       /\ cbIdx < frameSize
       /\ videoBuffer' = [videoBuffer EXCEPT ![cbIdx + 1] = cbFrame[cbIdx + 1]]
       /\ cbIdx' = cbIdx + 1
       /\ cbpc' = IF cbIdx + 1 = frameSize THEN "V48" ELSE "V47"
  /\ UNCHANGED <<cbFrameVars, videoMutex, newVideoFrame, depthSlot, cbFrame,
                 putVars>>

\* Line 48: newVideoFrame = true.
VideoCallbackSetFlag ==
  /\ cbpc = "V48"
  /\ newVideoFrame' = TRUE
  /\ cbpc' = "V49"
  /\ UNCHANGED <<cbFrameVars, videoMutex, videoBuffer, depthSlot, cbFrame,
                 cbIdx, putVars>>

\* Line 49: the lock_guard is released and the callback returns.
VideoCallbackReturn ==
  /\ cbpc = "V49"
  /\ videoMutex' = "free"
  /\ videoPuts' = videoPuts + 1
  /\ cbpc' = "idle" /\ cbFrame' = <<>> /\ cbIdx' = 0
  /\ UNCHANGED <<cbFrameVars, newVideoFrame, videoBuffer, depthSlot,
                 depthPuts>>

\* The driver has a depth frame ready and calls DepthCallback (line 52).
DepthDeliver ==
  /\ cbpc = "idle"
  /\ ctxOpen /\ devOpen /\ depthCbSet /\ depthStarted
  /\ videoPuts + depthPuts < MaxPuts
  /\ cbFrame' = DepthFrame(depthPuts + 1)
  /\ cbpc' = "D54"
  /\ UNCHANGED <<cbFrameVars, videoSlot, depthSlot, cbIdx, putVars>>

\* Line 54: std::lock_guard on depthMutex.
DepthCallbackLock ==
  /\ cbpc = "D54"
  /\ depthMutex = "free"
  /\ depthMutex' = "cb"
  /\ cbpc' = "D55"
  /\ UNCHANGED <<cbFrameVars, videoSlot, newDepthFrame, depthBuffer, cbFrame,
                 cbIdx, putVars>>

\* Lines 55-57: frameSize and the resize on a size mismatch.
DepthCallbackResize ==
  /\ cbpc = "D55"
  /\ LET frameSize == WIDTH * HEIGHT IN
       depthBuffer' = IF Len(depthBuffer) # frameSize
                        THEN Resize(depthBuffer, frameSize)
                        ELSE depthBuffer
  /\ cbIdx' = 0
  /\ cbpc' = "D58"
  /\ UNCHANGED <<cbFrameVars, videoSlot, depthMutex, newDepthFrame, cbFrame,
                 putVars>>

\* Line 58: std::memcpy, one element per step.
DepthCallbackMemcpy ==
  /\ cbpc = "D58"
  /\ LET frameSize == WIDTH * HEIGHT IN
       /\ cbIdx < frameSize
       /\ depthBuffer' = [depthBuffer EXCEPT ![cbIdx + 1] = cbFrame[cbIdx + 1]]
       /\ cbIdx' = cbIdx + 1
       /\ cbpc' = IF cbIdx + 1 = frameSize THEN "D59" ELSE "D58"
  /\ UNCHANGED <<cbFrameVars, videoSlot, depthMutex, newDepthFrame, cbFrame,
                 putVars>>

\* Line 59: newDepthFrame = true.
DepthCallbackSetFlag ==
  /\ cbpc = "D59"
  /\ newDepthFrame' = TRUE
  /\ cbpc' = "D60"
  /\ UNCHANGED <<cbFrameVars, videoSlot, depthMutex, depthBuffer, cbFrame,
                 cbIdx, putVars>>

\* Line 60: the lock_guard is released and the callback returns.
DepthCallbackReturn ==
  /\ cbpc = "D60"
  /\ depthMutex' = "free"
  /\ depthPuts' = depthPuts + 1
  /\ cbpc' = "idle" /\ cbFrame' = <<>> /\ cbIdx' = 0
  /\ UNCHANGED <<cbFrameVars, videoSlot, newDepthFrame, depthBuffer,
                 videoPuts>>

\* ------------------------------------------------------------ specification
MainNext ==
  \/ CheckArgc \/ ParseArg \/ Validate
  \/ NdiInitialize \/ CreateVideoSender \/ CreateDepthSender
  \/ FreenectInit \/ Sleep5("L158")
  \/ OpenDevice \/ Shutdown("L164", "L165") \/ Sleep5("L165")
  \/ SetVideoMode
  \/ CloseDevice("L180", "L181") \/ Shutdown("L181", "L182") \/ Sleep5("L182")
  \/ StartVideo
  \/ CloseDevice("L188", "L189") \/ Shutdown("L189", "L190") \/ Sleep5("L190")
  \/ SetDepthMode
  \/ StopVideo("L200", "L202") \/ CloseDevice("L202", "L203")
  \/ Shutdown("L203", "L204") \/ Sleep5("L204")
  \/ StartDepth
  \/ StopVideo("L210", "L212") \/ CloseDevice("L212", "L213")
  \/ Shutdown("L213", "L214") \/ Sleep5("L214")
  \/ Connected
  \/ ProcessEvents
  \/ CheckVideo \/ LockVideo \/ CopyVideo \/ ClearVideoFlag \/ UnlockVideo
  \/ ConvertVideo \/ SendVideo
  \/ CheckDepth \/ LockDepth \/ CopyDepth \/ ClearDepthFlag \/ UnlockDepth
  \/ ConvertDepthFrame \/ SendDepth
  \/ Sleep10
  \/ StopVideo("L309", "L311") \/ StopDepth \/ CloseDevice("L313", "L314")
  \/ ShutdownLost \/ Sleep5("L316")

CbNext ==
  \/ VideoDeliver \/ VideoCallbackLock \/ VideoCallbackResize
  \/ VideoCallbackMemcpy \/ VideoCallbackSetFlag \/ VideoCallbackReturn
  \/ DepthDeliver \/ DepthCallbackLock \/ DepthCallbackResize
  \/ DepthCallbackMemcpy \/ DepthCallbackSetFlag \/ DepthCallbackReturn

Next == MainNext \/ CbNext

Spec == Init /\ [][Next]_vars

\* ------------------------------------------------ the converters on their own
\* Largest uint16_t (depthBuffer, line 38) and the steps between the bytes of
\* the video frames tried.
MaxSample16 == 65535
VideoSteps == {0, 1, 85}
\* A video frame whose byte k is a + b*k, and a depth frame whose sample k
\* is d + k, as a callback may be handed.
VideoTestFrame(a, b) ==
  [k \in 1..(Pixels * videoChannels) |-> (a + b * (k - 1)) % ByteMod]
DepthTestFrame(d) ==
  [k \in 1..Pixels |-> (d + k - 1) % (MaxSample16 + 1)]

\* The publish loop right after it has taken a frame (line 240 or 283), for
\* one stream, with any of the frames above in its private copy.
ConvInit ==
  /\ argv = <<>>
  /\ \E stream \in {"ir", "rgb", "depth"} :
       /\ enable_ir = (stream = "ir")
       /\ enable_rgb = (stream = "rgb")
       /\ enable_depth = (stream = "depth")
  /\ videoChannels = IF enable_ir THEN 1 ELSE IF enable_rgb THEN 3 ELSE 0
  /\ pc = IF enable_depth THEN "L285" ELSE "L241"
  /\ exitCode = -1 /\ lastLog = "connected"
  /\ ndiInitialized = TRUE
  /\ ndiSenderVideo = IF videoEnabled THEN 1 ELSE NULL
  /\ ndiSenderDepth = IF enable_depth THEN 2 ELSE NULL
  /\ f_ctx = 1 /\ f_dev = 1 /\ ctxOpen = TRUE /\ devOpen = TRUE
  /\ videoCbSet = videoEnabled /\ depthCbSet = enable_depth
  /\ videoStarted = videoEnabled /\ depthStarted = enable_depth
  /\ videoMode = IF enable_ir THEN "IR_8BIT"
                 ELSE IF enable_rgb THEN "RGB" ELSE "none"
  /\ depthMode = IF enable_depth THEN "DEPTH_11BIT" ELSE "none"
  /\ kinect_active = TRUE
  /\ videoMutex = "free" /\ newVideoFrame = FALSE
  /\ depthMutex = "free" /\ newDepthFrame = FALSE
  /\ IF enable_depth
       THEN /\ localDepthBuffer \in {DepthTestFrame(d) : d \in 0..MaxSample16}
            /\ localVideoBuffer = <<>>
       ELSE /\ localVideoBuffer \in
                 {VideoTestFrame(a, b) : a \in 0..(ByteMod - 1), b \in VideoSteps}
            /\ localDepthBuffer = <<>>
  /\ videoBuffer = localVideoBuffer /\ depthBuffer = localDepthBuffer
  /\ rgbaFrame = BlankImage
  /\ cbpc = "idle" /\ cbFrame = <<>> /\ cbIdx = 0
  /\ videoPuts = IF videoEnabled THEN 1 ELSE 0
  /\ depthPuts = IF enable_depth THEN 1 ELSE 0
  /\ sentVideo = <<>> /\ sentDepth = <<>>
  /\ delays = 0 /\ everInit = TRUE
  /\ videoBase = 0 /\ depthBase = 0

ConvNext == ConvertVideo \/ SendVideo \/ ConvertDepthFrame \/ SendDepth

ConvSpec == ConvInit /\ [][ConvNext]_vars

\* The main thread keeps running and the driver thread finishes a callback it
\* has entered.
FairSpec == Spec /\ WF_vars(MainNext) /\ WF_vars(CbNext)

TypeOK ==
  /\ pc \in {"L78", "L82", "L115", "L121", "L133", "exit", "L152", "L162",
             "L164", "L170", "L180", "L181", "L186", "L188", "L189", "L195",
             "L200", "L202", "L203", "L208", "L210", "L212", "L213", "L219",
             "L224", "L232", "L237", "L238", "L239", "L240", "L241", "L272",
             "L276", "L280", "L281", "L282", "L283", "L285", "L303", "L305",
             "L309", "L311", "L313", "L314"} \cup SleepPcs
  /\ videoMutex \in {"free", "main", "cb"}
  /\ depthMutex \in {"free", "main", "cb"}
  /\ exitCode \in {-1, 0, 1}
  /\ videoChannels \in {0, 1, 3}

\* ------------------------------------------------------------------ claims
StartupPcs == {"L78", "L82", "L115", "L121", "L133", "exit"}
InSupervisor == pc \notin StartupPcs
\* The first position after each failure is logged.
FailPcs == {"L158", "L164", "L180", "L188", "L200", "L210", "L309"}
\* Every position between a logged failure and the next attempt.
FailPathPcs == FailPcs \cup SleepPcs \cup
               {"L181", "L189", "L202", "L203", "L212", "L213", "L311",
                "L313", "L314"}
\* Positions where the private copy of a slot is live.
VideoCopyPcs == {"L239", "L240", "L241", "L272"}
DepthCopyPcs == {"L282", "L283", "L285", "L303"}
ConvertSendPcs == {"L241", "L272", "L285", "L303"}
SendPcs == {"L272", "L303"}

Increasing(sent) ==
  \A a, b \in DOMAIN sent : a < b => sent[a].src[1] < sent[b].src[1]

\* C1: a Take returns exactly the data of the most recent Put completed
\* before the Take acquired the slot lock (while the publish loop still holds
\* the lock its copy is frame number videoPuts / depthPuts, the count of
\* completed Puts), and a frame older than one already taken is never
\* published: the frames reaching each sink are in strictly increasing order.
C1_TakeReturnsLatestPut ==
  /\ pc \in {"L239", "L240"} =>
       videoPuts >= 1 /\ localVideoBuffer = VideoFrame(videoPuts)
  /\ pc \in {"L282", "L283"} =>
       depthPuts >= 1 /\ localDepthBuffer = DepthFrame(depthPuts)
  /\ Increasing(sentVideo)
  /\ Increasing(sentDepth)

\* Two Puts, then a Take: only the second frame reached the sink.
C1_Witness ==
  \/ /\ videoPuts = 2 /\ Len(sentVideo) = 1
     /\ sentVideo[1].src = VideoFrame(2)
  \/ /\ depthPuts = 2 /\ Len(sentDepth) = 1
     /\ sentDepth[1].src = DepthFrame(2)

NoDuplicates(sent) ==
  \A a, b \in DOMAIN sent : a # b => sent[a].src # sent[b].src

\* C2: the number of frames sent to a sink never exceeds the number of Puts
\* on its slot, and no Put is published twice.
C2_NoTakeWithoutPut ==
  /\ Len(sentVideo) <= videoPuts
  /\ Len(sentDepth) <= depthPuts
  /\ NoDuplicates(sentVideo)
  /\ NoDuplicates(sentDepth)

\* The publish loop tests the flag again after the only Put was published.
C2_Witness ==
  /\ pc = "L232" /\ videoEnabled /\ ~newVideoFrame
  /\ videoPuts = 1 /\ Len(sentVideo) = 1 /\ cbpc = "idle"

WholeVideoFrame(buf) == \E n \in 1..MaxPuts : buf = VideoFrame(n)
WholeDepthFrame(buf) == \E n \in 1..MaxPuts : buf = DepthFrame(n)

\* C3: the private copy of the publish loop, and every frame it hands to a
\* sink, is the complete content of one Put: never a mixture of two Puts or
\* a partially written frame.
C3_CopyIsOneWholePut ==
  /\ pc \in VideoCopyPcs => WholeVideoFrame(localVideoBuffer)
  /\ pc \in DepthCopyPcs => WholeDepthFrame(localDepthBuffer)
  /\ \A a \in DOMAIN sentVideo : WholeVideoFrame(sentVideo[a].src)
  /\ \A a \in DOMAIN sentDepth : WholeDepthFrame(sentDepth[a].src)

\* A Put waits for the slot lock while the Take is inside its critical
\* section, with an earlier frame already in the slot.
C3_Witness ==
  \/ pc = "L239" /\ cbpc = "V43" /\ videoPuts >= 1
  \/ pc = "L282" /\ cbpc = "D54" /\ depthPuts >= 1

\* C4: the main thread holds a slot lock only inside the copy-and-clear
\* block of that slot, hence never while converting or sending and never
\* both locks at once; while it converts or sends, a callback waiting for
\* either lock can acquire it.
C4_NoLockAcrossSend ==
  /\ videoMutex = "main" => pc \in {"L238", "L239", "L240"}
  /\ depthMutex = "main" => pc \in {"L281", "L282", "L283"}
  /\ pc \in ConvertSendPcs => videoMutex # "main" /\ depthMutex # "main"
  /\ ~(videoMutex = "main" /\ depthMutex = "main")
  /\ pc \in ConvertSendPcs /\ cbpc = "V43" => ENABLED VideoCallbackLock
  /\ pc \in ConvertSendPcs /\ cbpc = "D54" => ENABLED DepthCallbackLock

\* A callback is inside its critical section while a send is in progress.
C4_Witness ==
  \/ pc = "L272" /\ cbpc = "V47"
  \/ pc = "L303" /\ cbpc = "D58"

\* C5: once the supervisor loop is entered the process never leaves it, and
\* every logged failure is eventually followed by a new connection attempt.
C5_RetriesForever ==
  /\ [][InSupervisor => InSupervisor']_vars
  /\ (pc \in FailPcs) ~> (pc = "L152")

\* A new attempt is about to start after a failure.
C5_Witness == pc = "L152" /\ lastLog \in FailLogs /\ everInit

\* C6: while the supervisor waits before a new attempt and when it begins
\* one, no stream is started and neither the device nor the context is open.
C6_FailureReleasesAll ==
  pc \in (SleepPcs \cup {"L152"}) =>
    ~videoStarted /\ ~depthStarted /\ ~devOpen /\ ~ctxOpen

\* The delay after a depth failure that followed a successful video start.
C6_Witness ==
  /\ pc \in {"L204", "L214"} /\ videoEnabled
  /\ lastLog \in {"depth_mode_failed", "depth_start_failed"}

StaysOnFailPath ==
  pc \in FailPathPcs => pc' \in FailPathPcs \/ pc' = "L152"
SleepEndsAtTop ==
  pc \in SleepPcs /\ pc' # pc => pc' = "L152" /\ delays' = 1

\* C7: between a logged failure and the next attempt the supervisor only
\* cleans up and sleeps; it has not slept before the sleep of that path and
\* has slept exactly once when the next attempt starts at the top.
C7_OneDelayThenTop ==
  /\ [](pc = "L152" /\ lastLog \in FailLogs => delays = 1)
  /\ [](pc \in FailPathPcs => delays = 0)
  /\ [][StaysOnFailPath]_vars
  /\ [][SleepEndsAtTop]_vars

\* The attempt that follows a lost connection, after its one delay.
C7_Witness == pc = "L152" /\ lastLog = "connection_lost" /\ delays = 1

\* The command line contains the argument a: it is among the arguments
\* still to be read, or the loop has read it (only for --ir and --rgb, which
\* the loop records in enable_ir and enable_rgb).
Given(a) ==
  \/ \E k \in DOMAIN argv : argv[k] = a
  \/ a = "--ir" /\ enable_ir
  \/ a = "--rgb" /\ enable_rgb
HasBoth == Given("--ir") /\ Given("--rgb")
\* A help argument comes before every unrecognized argument: the loop stops
\* at the first argument that is neither --ir, --rgb nor --depth.
HelpFirst ==
  \E k \in DOMAIN argv :
    /\ argv[k] \in {"--help", "-h"}
    /\ \A j \in 1..(k - 1) : argv[j] \in {"--ir", "--rgb", "--depth"}

\* C8 as stated: every argument list with both --ir and --rgb ends in an
\* error and exit status 1.
C8_Original ==
  HasBoth =>
    /\ pc \in {"L78", "L82", "exit"}
    /\ pc = "exit" => exitCode = 1

\* C8 amended: an argument list with both --ir and --rgb ends in an error and
\* exit status 1 unless a help argument comes before every unrecognized
\* argument; then the usage is printed and the status is 0.
C8_Amended ==
  HasBoth =>
    /\ pc \in {"L78", "L82", "exit"}
    /\ pc = "exit" =>
         IF HelpFirst
           THEN exitCode = 0 /\ lastLog = "usage"
           ELSE exitCode = 1 /\ lastLog \in {"both_ir_rgb", "unknown_argument"}

\* Both flags were parsed and the validation rejected them.
C8_Witness ==
  HasBoth /\ pc = "exit" /\ exitCode = 1 /\ lastLog = "both_ir_rgb"

StartupFatalLogs == {"unknown_argument", "both_ir_rgb", "no_mode",
                     "ndi_init_failed"}

\* C9: after an argument error or a failed NDI initialisation the process
\* has exited with a non-zero status, no sender exists, freenect_init was
\* never called, and nothing runs after the exit.
C9_FatalAtStartup ==
  /\ [](lastLog \in StartupFatalLogs =>
          /\ pc = "exit" /\ exitCode # 0 /\ exitCode # -1
          /\ ndiSenderVideo = NULL /\ ndiSenderDepth = NULL
          /\ ~everInit)
  /\ [][pc # "exit"]_vars

\* The exit after NDIlib_initialize() failed.
C9_Witness == lastLog = "ndi_init_failed" /\ pc = "exit"

ValidConfig ==
  /\ ~(enable_ir /\ enable_rgb)
  /\ enable_ir \/ enable_rgb \/ enable_depth
  /\ (videoChannels = 1) <=> enable_ir
  /\ (videoChannels = 3) <=> enable_rgb
  /\ ~enable_ir /\ ~enable_rgb => videoChannels = 0

\* C10: from the first connection attempt on, the stream configuration is
\* valid and no step changes it.
C10_ConfigFixedAndValid ==
  /\ [](InSupervisor => ValidConfig)
  /\ [][InSupervisor => UNCHANGED cfgVars]_vars

\* Streaming colour and depth.
C10_Witness ==
  pc = "L224" /\ enable_rgb /\ enable_depth /\ videoChannels = 3

\* Width of int, the type of the product depthVal * 255 at line 287.
Int32Max == 2147483647

\* The pixel published for the in-range depth sample d.
DepthPixelOK(d, px) ==
  d \in 0..DepthMax =>
    LET f == (d * GrayMax) \div DepthMax IN
      /\ px = <<f, f, f, GrayMax>>
      /\ f \in 0..(ByteMod - 1)
      /\ d * GrayMax <= Int32Max
      /\ d = 0 => px[1] = 0
      /\ d = DepthMax => px[1] = GrayMax

\* C11: every depth sample d in 0..2047 is published as the pixel
\* (f, f, f, 255) with f = floor(d*255/2047); 0 gives 0, 2047 gives 255, and
\* neither the product nor the result leaves its integer type.
C11_DepthMapping ==
  \A a \in DOMAIN sentDepth :
    /\ Len(sentDepth[a].img) = Pixels
    /\ \A p \in 1..Pixels :
         DepthPixelOK(sentDepth[a].src[p], sentDepth[a].img[p])

\* A depth frame that starts with the largest 11-bit sample was published.
C11_Witness ==
  /\ Len(sentDepth) = 1
  /\ sentDepth[1].src[1] = DepthMax
  /\ sentDepth[1].img[1] = <<GrayMax, GrayMax, GrayMax, GrayMax>>

\* C12: every video frame taken is published with all its pixels written:
\* pixel i is (v, v, v, 255) in infrared mode, v being sample i, and
\* (b, g, r, 255) in colour mode, (r, g, b) being bytes 3i, 3i+1, 3i+2.
C12_VideoMapping ==
  \A a \in DOMAIN sentVideo :
    LET src == sentVideo[a].src
        img == sentVideo[a].img
    IN /\ Len(img) = Pixels
       /\ \A p \in 1..Pixels :
            /\ img[p][4] = GrayMax
            /\ enable_ir => img[p] = <<src[p], src[p], src[p], GrayMax>>
            /\ enable_rgb =>
                 img[p] = <<src[3 * (p - 1) + 3], src[3 * (p - 1) + 2],
                            src[3 * (p - 1) + 1], GrayMax>>

\* A colour frame whose red and blue bytes differ was published.
C12_Witness ==
  /\ Len(sentVideo) = 1
  /\ enable_rgb /\ sentVideo[1].src[1] # sentVideo[1].src[3]

\* C18 as stated: a depth sample above 2047 is published with intensity 255,
\* the intensity always being min(255, floor(d*255/2047)).
C18_Clamps ==
  \A a \in DOMAIN sentDepth :
    \A p \in 1..Pixels :
      LET d == sentDepth[a].src[p]
          f == (d * GrayMax) \div DepthMax
      IN /\ sentDepth[a].img[p][1] = IF f < GrayMax THEN f ELSE GrayMax
         /\ d > DepthMax => sentDepth[a].img[p][1] = GrayMax

\* Positions of the inner loop, of the cleanup after it, and of the
\* configuration of the streams.
StreamingPcs == {"L224", "L232", "L237", "L238", "L239", "L240", "L241",
                 "L272", "L276", "L280", "L281", "L282", "L283", "L285",
                 "L303", "L305"}
TeardownPcs == {"L309", "L311", "L313", "L314", "L316"}
ConfigPcs == {"L170", "L186", "L195", "L208", "L219"}
mainCopies == <<localVideoBuffer, localDepthBuffer, rgbaFrame>>

\* The step that sees a negative result leaves the loop at once, touching no
\* slot, no copy and no sink.
EventsFailureLeaves ==
  pc = "L224" /\ pc' # pc =>
    \/ pc' = "L232" /\ kinect_active'
    \/ /\ pc' = "L309" /\ ~kinect_active' /\ lastLog' = "events_failed"
       /\ UNCHANGED <<videoSlot, depthSlot, mainCopies, sinkVars>>
\* Stop video, stop depth, close the device, shut the context down, sleep.
TeardownInOrder ==
  /\ pc = "L309" /\ pc' # pc =>
       pc' = "L311" /\ ~videoStarted' /\ devOpen' /\ ctxOpen'
  /\ pc = "L311" /\ pc' # pc =>
       pc' = "L313" /\ ~videoStarted' /\ ~depthStarted' /\ devOpen' /\ ctxOpen'
  /\ pc = "L313" /\ pc' # pc => pc' = "L314" /\ ~devOpen' /\ ctxOpen'
  /\ pc = "L314" /\ pc' # pc => pc' = "L316" /\ ~ctxOpen' /\ delays' = 0
  /\ pc = "L316" /\ pc' # pc => pc' = "L152" /\ delays' = 1
  /\ pc \in TeardownPcs => UNCHANGED <<mainCopies, sinkVars>>
CloseAfterStop ==
  devOpen /\ ~devOpen' => ~videoStarted /\ ~depthStarted

\* C13: a negative result of event processing ends the loop in that very
\* iteration with no frame taken or sent, and is followed in this order by
\* stopping the active streams, closing the device, shutting the context
\* down and the delay; the context is never shut down while the device is
\* open and the device is never closed while a stream is started.
C13_DisconnectTeardown ==
  /\ [][EventsFailureLeaves]_vars
  /\ [][TeardownInOrder]_vars
  /\ [][CloseAfterStop]_vars
  /\ [](devOpen => ctxOpen)

\* The loop was left with an unpublished video frame pending, and the
\* cleanup has reached the delay.
C13_Witness ==
  /\ pc = "L316" /\ videoEnabled /\ enable_depth
  /\ newVideoFrame /\ videoPuts >= 1 /\ sentVideo = <<>>

\* Everything an attempt must have done before the inner loop runs.
VideoReady ==
  videoEnabled =>
    /\ videoCbSet /\ videoStarted
    /\ videoMode = IF enable_ir THEN "IR_8BIT" ELSE "RGB"
DepthReady ==
  enable_depth => depthCbSet /\ depthStarted /\ depthMode = "DEPTH_11BIT"
Established ==
  /\ everInit /\ ctxOpen /\ f_ctx # NULL
  /\ devOpen /\ f_dev # NULL
  /\ VideoReady /\ DepthReady
SendOnlyWhileStreaming ==
  sentVideo' # sentVideo \/ sentDepth' # sentDepth =>
    pc \in StreamingPcs /\ pc' \in StreamingPcs /\ Established

\* C14: the inner loop runs only after the context was initialised, the
\* device opened and every requested stream (video before depth) got its
\* callback, its mode and a successful start; frames reach a sink only from
\* inside the inner loop.
C14_StreamingOnlyWhenEstablished ==
  /\ [](pc \in StreamingPcs => Established)
  /\ [](pc \in {"L195", "L208", "L219"} => VideoReady)
  /\ [](pc \in {"L170", "L186"} => ~depthCbSet /\ ~depthStarted)
  /\ [][SendOnlyWhileStreaming]_vars

\* A video frame is being sent while both streams run.
C14_Witness ==
  pc = "L272" /\ enable_ir /\ enable_depth /\ depthStarted /\ videoStarted

\* Positions where the program is about to use f_dev.
DevUsePcs == ConfigPcs \cup StreamingPcs \cup
             {"L180", "L188", "L200", "L202", "L210", "L212", "L309",
              "L311", "L313"}
SendersKept == InSupervisor => UNCHANGED ndiVars
SendersMadeAtStartup ==
  ndiSenderVideo' # ndiSenderVideo \/ ndiSenderDepth' # ndiSenderDepth =>
    ~everInit /\ pc \in {"L121", "L133"}
DeviceAcquiredPerAttempt ==
  /\ ~ctxOpen /\ ctxOpen' => pc = "L152"
  /\ ~devOpen /\ devOpen' => pc = "L162"
  /\ pc = "L152" /\ pc' = "L162" => ~ctxOpen /\ ctxOpen' /\ f_dev' = NULL

\* C15: the senders are made once, before the first connection attempt, one
\* for each active stream, and no supervisor step changes them; the context
\* and the device are opened anew in every attempt: nothing is open when an
\* attempt begins and whatever the attempt uses it has opened itself.
C15_SendersOnceDeviceFresh ==
  /\ [][SendersKept]_vars
  /\ [][SendersMadeAtStartup]_vars
  /\ [](InSupervisor =>
          /\ ndiInitialized
          /\ (ndiSenderVideo # NULL) <=> videoEnabled
          /\ (ndiSenderDepth # NULL) <=> enable_depth)
  /\ [](pc = "L152" => ~ctxOpen /\ ~devOpen)
  /\ [](pc \in DevUsePcs => ctxOpen /\ devOpen)
  /\ [][DeviceAcquiredPerAttempt]_vars

\* A later attempt has opened its context; the senders are still there.
C15_Witness ==
  /\ pc = "L162" /\ lastLog = "connection_lost" /\ ctxOpen
  /\ ndiSenderVideo # NULL /\ ndiSenderDepth # NULL

\* C17: a failed sender creation ends the process with status 1, with the
\* senders and the library destroyed and no connection attempted; the inner
\* loop never runs with a null sender for an enabled stream.
C17_SenderFailureIsFatal ==
  /\ lastLog \in {"video_sender_failed", "depth_sender_failed"} =>
       /\ pc = "exit" /\ exitCode = 1 /\ ~everInit
       /\ ndiSenderVideo = NULL /\ ndiSenderDepth = NULL
       /\ ~ndiInitialized
  /\ pc \in StreamingPcs =>
       /\ videoEnabled => ndiSenderVideo # NULL
       /\ enable_depth => ndiSenderDepth # NULL

\* The depth sender failed after the video sender had been made.
C17_Witness ==
  lastLog = "depth_sender_failed" /\ videoEnabled /\ pc = "exit"

\* The number of the frame a sink received last.
LastVideoNo(sent) == sent[Len(sent)].src[1]
LastDepthNo(sent) == sent[Len(sent)].src[1] \div ByteMod
SentFrameIsFromThisAttempt ==
  /\ sentVideo' # sentVideo => LastVideoNo(sentVideo') > videoBase
  /\ sentDepth' # sentDepth => LastDepthNo(sentDepth') > depthBase

\* C19 as stated: a frame sent to a sink was handed to its callback after
\* the current connection attempt began; no frame of an earlier session is
\* published after a reconnect.
C19_NoStaleFrame == [][SentFrameIsFromThisAttempt]_vars

\* Elements of a complete video frame.
VideoSize == WIDTH * HEIGHT * videoChannels
\* The largest index the conversion of lines 241-261 reads (from 1).
VideoLastRead == IF enable_ir THEN Pixels ELSE 3 * (Pixels - 1) + 3

\* C20: a set new-frame flag means the slot has the configured size (and,
\* unless a callback is rewriting it under the lock, holds one complete
\* frame); so every private copy has that size and the conversions read
\* inside it, also in the first iteration after a reconnect.
C20_FlagMeansFullFrame ==
  /\ newVideoFrame => Len(videoBuffer) = VideoSize
  /\ newVideoFrame /\ videoMutex # "cb" => WholeVideoFrame(videoBuffer)
  /\ newDepthFrame => Len(depthBuffer) = Pixels
  /\ newDepthFrame /\ depthMutex # "cb" => WholeDepthFrame(depthBuffer)
  /\ pc \in VideoCopyPcs =>
       Len(localVideoBuffer) = VideoSize /\ VideoLastRead <= Len(localVideoBuffer)
  /\ pc \in DepthCopyPcs =>
       Len(localDepthBuffer) = Pixels
  /\ \A a \in DOMAIN sentVideo : Len(sentVideo[a].src) = VideoSize
  /\ \A a \in DOMAIN sentDepth : Len(sentDepth[a].src) = Pixels

\* A colour frame is about to be converted in an attempt that began after
\* the callback had already been handed a frame.
C20_Witness == pc = "L241" /\ enable_rgb /\ videoBase >= 1

Streaming == pc \in StreamingPcs
VideoSent(n) == \E a \in DOMAIN sentVideo : sentVideo[a].src = VideoFrame(n)
DepthSent(n) == \E a \in DOMAIN sentDepth : sentDepth[a].src = DepthFrame(n)
\* The newest complete frame is published, or in the hands of the publish
\* loop, or still announced by the flag.
VideoFlagKept ==
  videoPuts >= 1 =>
    \/ VideoSent(videoPuts)
    \/ pc \in VideoCopyPcs /\ localVideoBuffer = VideoFrame(videoPuts)
    \/ newVideoFrame
DepthFlagKept ==
  depthPuts >= 1 =>
    \/ DepthSent(depthPuts)
    \/ pc \in DepthCopyPcs /\ localDepthBuffer = DepthFrame(depthPuts)
    \/ newDepthFrame

\* C16: no race between the unlocked flag test, the locked copy-and-clear
\* and a concurrent Put loses a set flag, and with both threads scheduled
\* fairly a frame put while the inner loop runs is eventually sent or
\* overwritten by a newer Put, unless the inner loop is left first.
C16_FrameSentOrOverwritten ==
  /\ [](VideoFlagKept /\ DepthFlagKept)
  /\ \A n \in 1..MaxPuts :
       (Streaming /\ videoPuts = n) ~>
         (VideoSent(n) \/ videoPuts > n \/ ~Streaming)
  /\ \A n \in 1..MaxPuts :
       (Streaming /\ depthPuts = n) ~>
         (DepthSent(n) \/ depthPuts > n \/ ~Streaming)

\* The publish loop has seen the flag and waits for the lock while a Put
\* is rewriting the slot.
C16_Witness ==
  pc = "L237" /\ newVideoFrame /\ cbpc \in {"V44", "V47", "V48"}
====
